---- MODULE Spec2Model ----
(***************************************************************************)
(* Model of the Cloudflare D1 driver of sea-orm (src/driver/sqlx_d1.rs):   *)
(* the statement splitter split_unprepared_sql, and the execution facade   *)
(* SqlxD1Connection built on it.                                           *)
(*                                                                         *)
(* SQL text is a sequence of one-character strings.  Positions are 0-based *)
(* as in the source: the byte at position p of text b is b[p + 1].  A      *)
(* segment (&str slice of the input) is the half-open range [lo, hi) it    *)
(* covers.                                                                 *)
(***************************************************************************)
EXTENDS Integers, Sequences, FiniteSets, TLC

VARIABLES
    sql,      \* split_unprepared_sql: the input text
    state,    \* split_unprepared_sql: the lexical state
    start,    \* split_unprepared_sql: where the current segment begins
    i,        \* split_unprepared_sql: the scan position
    out,      \* split_unprepared_sql: the segments pushed so far
    pc,       \* split_unprepared_sql: "scan" (in the loop) or "done" (returned)
    metric_callback, \* SqlxD1Connection.metric_callback of each handle: is one set
    call,     \* the call in progress on each handle
    backend,  \* every request sent over the shared D1Connection, in order, with its outcome
    metric,   \* the reports the metric callbacks have received, in order
    returned, \* what every finished call gave back to its caller, in order
    ncalls,   \* the number of facade calls started so far
    txns,     \* the DatabaseTransaction behind each transaction handle
    warnings, \* the number of warn! lines logged
    abandoned \* the calls whose future the caller dropped while it was suspended

scanVars == <<sql, state, start, i, out, pc>>
auxVars == <<txns, warnings, abandoned>>
execVars == <<metric_callback, call, backend, metric, returned, ncalls, txns, warnings, abandoned>>
vars ==
    <<sql, state, start, i, out, pc, metric_callback, call, backend, metric, returned, ncalls,
      txns, warnings, abandoned>>

----------------------------------------------------------------------------
(* Bounds of the model *)

\* inputs of the splitter: every text over Alphabet of at most this length
MaxLen == 4

\* facade calls started in one behaviour
MaxCalls == 2

----------------------------------------------------------------------------
(* Text *)

\* The bytes the scanner tells apart, and one ordinary byte.
Alphabet == {"'", "\"", "-", "/", "*", ";", "\n", " ", "a"}

\* str::trim removes Unicode White_Space from both ends
Whitespace == {" ", "\n", "\t", "\r"}

At(bytes, p) == bytes[p + 1]

\* &sql[lo..hi]
Slice(bytes, lo, hi) == SubSeq(bytes, lo + 1, hi)

\* stmt.trim().is_empty()
IsBlank(bytes) == \A p \in 1..Len(bytes) : bytes[p] \in Whitespace

\* str::trim, as the range that is left of [lo, hi)
RECURSIVE TrimStart(_, _, _)
TrimStart(bytes, lo, hi) ==
    IF lo < hi /\ At(bytes, lo) \in Whitespace THEN TrimStart(bytes, lo + 1, hi) ELSE lo

RECURSIVE TrimEnd(_, _, _)
TrimEnd(bytes, lo, hi) ==
    IF lo < hi /\ At(bytes, hi - 1) \in Whitespace THEN TrimEnd(bytes, lo, hi - 1) ELSE hi

Trim(bytes) ==
    LET lo == TrimStart(bytes, 0, Len(bytes))
    IN  Slice(bytes, lo, TrimEnd(bytes, lo, Len(bytes)))

RECURSIVE TextsUpTo(_)
TextsUpTo(n) ==
    IF n = 0 THEN {<<>>}
    ELSE LET shorter == TextsUpTo(n - 1)
         IN  shorter \cup {Append(t, c) : t \in {u \in shorter : Len(u) = n - 1}, c \in Alphabet}

----------------------------------------------------------------------------
(* split_unprepared_sql *)

States == {"Normal", "SingleQuote", "DoubleQuote", "LineComment", "BlockComment"}

\* a segment sql[lo..hi]
Seg(lo, hi) == [lo |-> lo, hi |-> hi]

\* the segment's text
SegText(bytes, seg) == Slice(bytes, seg.lo, seg.hi)

\* PushIfNotBlank without the blank test: every span is pushed
PushAlways(bytes, o, lo, hi) == Append(o, Seg(lo, hi))

\* if !stmt.trim().is_empty() { out.push(stmt) }
PushIfNotBlank(bytes, o, lo, hi) ==
    IF ~IsBlank(Slice(bytes, lo, hi)) THEN Append(o, Seg(lo, hi)) ELSE o

\* NormalStep whose next span starts at the semicolon instead of after it
NormalStepKeepsSemicolon(bytes, sc) ==
    LET b == At(bytes, sc.i)
        two(c) == sc.i + 1 < Len(bytes) /\ At(bytes, sc.i + 1) = c
    IN  CASE b = "'"  -> [sc EXCEPT !.state = "SingleQuote", !.i = sc.i + 1]
          [] b = "\"" -> [sc EXCEPT !.state = "DoubleQuote", !.i = sc.i + 1]
          [] b = "-" /\ two("-") -> [sc EXCEPT !.state = "LineComment", !.i = sc.i + 2]
          [] b = "/" /\ two("*") -> [sc EXCEPT !.state = "BlockComment", !.i = sc.i + 2]
          [] b = ";"  -> [sc EXCEPT !.out = PushIfNotBlank(bytes, sc.out, sc.start, sc.i),
                                    !.start = sc.i,
                                    !.i = sc.i + 1]
          [] OTHER    -> [sc EXCEPT !.i = sc.i + 1]

\* State::Normal arm; sc is the scanner [state, start, i, out], sc.i < Len(bytes)
NormalStep(bytes, sc) ==
    LET b == At(bytes, sc.i)
        two(c) == sc.i + 1 < Len(bytes) /\ At(bytes, sc.i + 1) = c
    IN  CASE b = "'"  -> [sc EXCEPT !.state = "SingleQuote", !.i = sc.i + 1]
          [] b = "\"" -> [sc EXCEPT !.state = "DoubleQuote", !.i = sc.i + 1]
          [] b = "-" /\ two("-") -> [sc EXCEPT !.state = "LineComment", !.i = sc.i + 2]
          [] b = "/" /\ two("*") -> [sc EXCEPT !.state = "BlockComment", !.i = sc.i + 2]
          [] b = ";"  -> [sc EXCEPT !.out = PushIfNotBlank(bytes, sc.out, sc.start, sc.i),
                                    !.start = sc.i + 1,
                                    !.i = sc.i + 1]
          [] OTHER    -> [sc EXCEPT !.i = sc.i + 1]

\* QuoteStep that treats a semicolon inside the quotes as structural
QuoteStepSplitting(bytes, sc, q) ==
    IF At(bytes, sc.i) = q
    THEN IF sc.i + 1 < Len(bytes) /\ At(bytes, sc.i + 1) = q
         THEN [sc EXCEPT !.i = sc.i + 2]
         ELSE [sc EXCEPT !.state = "Normal", !.i = sc.i + 1]
    ELSE IF At(bytes, sc.i) = ";"
         THEN [sc EXCEPT !.out = Append(sc.out, Seg(sc.start, sc.i)),
                         !.start = sc.i + 1,
                         !.i = sc.i + 1]
         ELSE [sc EXCEPT !.i = sc.i + 1]

\* QuoteStep without the doubled-quote escape: every quote byte closes
QuoteStepNoEscape(bytes, sc, q) ==
    IF At(bytes, sc.i) = q
    THEN [sc EXCEPT !.state = "Normal", !.i = sc.i + 1]
    ELSE [sc EXCEPT !.i = sc.i + 1]

\* QuoteStep that recognises the opener `--` inside the quotes
QuoteStepOpensComment(bytes, sc, q) ==
    IF At(bytes, sc.i) = q
    THEN IF sc.i + 1 < Len(bytes) /\ At(bytes, sc.i + 1) = q
         THEN [sc EXCEPT !.i = sc.i + 2]
         ELSE [sc EXCEPT !.state = "Normal", !.i = sc.i + 1]
    ELSE IF At(bytes, sc.i) = "-" /\ sc.i + 1 < Len(bytes) /\ At(bytes, sc.i + 1) = "-"
         THEN [sc EXCEPT !.state = "LineComment", !.i = sc.i + 2]
         ELSE [sc EXCEPT !.i = sc.i + 1]

\* State::SingleQuote and State::DoubleQuote arms, q the quote byte of the state
QuoteStep(bytes, sc, q) ==
    IF At(bytes, sc.i) = q
    THEN IF sc.i + 1 < Len(bytes) /\ At(bytes, sc.i + 1) = q
         THEN [sc EXCEPT !.i = sc.i + 2]
         ELSE [sc EXCEPT !.state = "Normal", !.i = sc.i + 1]
    ELSE [sc EXCEPT !.i = sc.i + 1]

\* LineCommentStep that looks for a carriage return instead of the newline
LineCommentStepCr(bytes, sc) ==
    IF At(bytes, sc.i) = "\r"
    THEN [sc EXCEPT !.state = "Normal", !.i = sc.i + 1]
    ELSE [sc EXCEPT !.i = sc.i + 1]

\* State::LineComment arm
LineCommentStep(bytes, sc) ==
    IF At(bytes, sc.i) = "\n"
    THEN [sc EXCEPT !.state = "Normal", !.i = sc.i + 1]
    ELSE [sc EXCEPT !.i = sc.i + 1]

\* BlockCommentStep whose test for `*/` lacks i + 1 < bytes.len(): a `*` that
\* ends the input is taken with the byte after it
BlockCommentStepUnguarded(bytes, sc) ==
    IF At(bytes, sc.i) = "*" /\ (sc.i + 1 >= Len(bytes) \/ At(bytes, sc.i + 1) = "/")
    THEN [sc EXCEPT !.state = "Normal", !.i = sc.i + 2]
    ELSE [sc EXCEPT !.i = sc.i + 1]

\* BlockCommentStep that leaves the comment at a `*` alone
BlockCommentStepStar(bytes, sc) ==
    IF At(bytes, sc.i) = "*"
    THEN [sc EXCEPT !.state = "Normal", !.i = sc.i + 1]
    ELSE [sc EXCEPT !.i = sc.i + 1]

\* State::BlockComment arm
BlockCommentStep(bytes, sc) ==
    IF At(bytes, sc.i) = "*" /\ sc.i + 1 < Len(bytes) /\ At(bytes, sc.i + 1) = "/"
    THEN [sc EXCEPT !.state = "Normal", !.i = sc.i + 2]
    ELSE [sc EXCEPT !.i = sc.i + 1]

\* one iteration of the loop: match state { ... }
ScanStep(bytes, sc) ==
    CASE sc.state = "Normal"       -> NormalStep(bytes, sc)
      [] sc.state = "SingleQuote"  -> QuoteStep(bytes, sc, "'")
      [] sc.state = "DoubleQuote"  -> QuoteStep(bytes, sc, "\"")
      [] sc.state = "LineComment"  -> LineCommentStep(bytes, sc)
      [] sc.state = "BlockComment" -> BlockCommentStep(bytes, sc)

\* FlushTail that pushes the trimmed tail
FlushTailTrimmed(bytes, sc) ==
    LET lo == TrimStart(bytes, sc.start, Len(bytes))
        hi == TrimEnd(bytes, lo, Len(bytes))
    IN  IF lo < hi THEN Append(sc.out, Seg(lo, hi)) ELSE sc.out

\* let tail = &sql[start..]; if !tail.trim().is_empty() { out.push(tail) }
FlushTail(bytes, sc) == PushIfNotBlank(bytes, sc.out, sc.start, Len(bytes))

\* let mut state = State::Normal; let mut start = 0; let mut i = 0; out = Vec::new()
ScanInit == [state |-> "Normal", start |-> 0, i |-> 0, out |-> <<>>]

\* while i < bytes.len() { ... }
RECURSIVE ScanLoop(_, _)
ScanLoop(bytes, sc) ==
    IF sc.i < Len(bytes) THEN ScanLoop(bytes, ScanStep(bytes, sc)) ELSE sc

\* the function as a whole: the segments returned for bytes
split_unprepared_sql(bytes) == FlushTail(bytes, ScanLoop(bytes, ScanInit))

\* the scanner the variables hold
Scanner == [state |-> state, start |-> start, i |-> i, out |-> out]

----------------------------------------------------------------------------
(* Inputs of the splitter *)

\* `SELECT 'it''s; fine'; SELECT 2;`
ExEscapedQuote ==
    <<"S", "E", "L", "E", "C", "T", " ", "'", "i", "t", "'", "'", "s", ";", " ", "f", "i",
      "n", "e", "'", ";", " ", "S", "E", "L", "E", "C", "T", " ", "2", ";">>

\* `-- comment with ; inside\nSELECT 1;`
ExLineComment ==
    <<"-", "-", " ", "c", "o", "m", "m", "e", "n", "t", " ", "w", "i", "t", "h", " ", ";",
      " ", "i", "n", "s", "i", "d", "e", "\n", "S", "E", "L", "E", "C", "T", " ", "1", ";">>

\* `SELECT 1;;SELECT 2;`
ExConsecutive ==
    <<"S", "E", "L", "E", "C", "T", " ", "1", ";", ";", "S", "E", "L", "E", "C", "T", " ",
      "2", ";">>

\* `SELECT 1; -- done`
ExTrailingComment ==
    <<"S", "E", "L", "E", "C", "T", " ", "1", ";", " ", "-", "-", " ", "d", "o", "n", "e">>

\* `/* ; */`
ExBlockComment ==
    <<"/", "*", " ", ";", " ", "*", "/">>

\* `/*;*/ a;"b;" ;`
ExBlockThenStmts ==
    <<"/", "*", ";", "*", "/", " ", "a", ";", "\"", "b", ";", "\"", " ", ";">>

\* `SELECT '--'; SELECT 2`
ExQuotedDashes ==
    <<"S", "E", "L", "E", "C", "T", " ", "'", "-", "-", "'", ";", " ", "S", "E", "L",
      "E", "C", "T", " ", "2">>

\* `/* ' */ SELECT 1; SELECT 2`
ExQuoteInComment ==
    <<"/", "*", " ", "'", " ", "*", "/", " ", "S", "E", "L", "E", "C", "T", " ", "1",
      ";", " ", "S", "E", "L", "E", "C", "T", " ", "2">>

\* `SELECT 1; /* c ; SELECT 2`
ExUnterminatedBlock ==
    <<"S", "E", "L", "E", "C", "T", " ", "1", ";", " ", "/", "*", " ", "c", " ", ";",
      " ", "S", "E", "L", "E", "C", "T", " ", "2">>

Examples ==
    {ExEscapedQuote, ExLineComment, ExConsecutive, ExTrailingComment, ExBlockComment,
     ExBlockThenStmts, ExQuotedDashes, ExQuoteInComment, ExUnterminatedBlock}

\* every text over Alphabet of at most MaxLen bytes, and the examples
Inputs == TextsUpTo(MaxLen) \cup Examples

----------------------------------------------------------------------------
(* The execution facade at rest (its operations follow the splitter's      *)
(* claims)                                                                 *)

\* the connection and a clone of it: both hold the same D1Connection
Handles == {"conn", "clone"}

\* no call in progress on a handle
Idle ==
    [pc |-> "idle", id |-> 0, op |-> "none", text |-> <<>>, stmts |-> <<>>,
     fast |-> FALSE, k |-> 0, last |-> 0, req |-> 0]

\* the handle of a transaction begun on a connection
TxHandles == {"tx"}

\* everything a call can be made on
Conns == Handles \cup TxHandles

\* no transaction behind the handle
NoTx ==
    [open |-> FALSE, over |-> "none", mode |-> "none", conn |-> "none",
     isolation |-> "none", access |-> "none", todo |-> <<>>, ret |-> "none"]

\* From<sqlx_d1::D1Connection>: no metric callback; nothing sent yet
ExecInit ==
    /\ metric_callback = [h \in Conns |-> FALSE]
    /\ call = [h \in Conns |-> Idle]
    /\ backend = <<>>
    /\ metric = <<>>
    /\ returned = <<>>
    /\ ncalls = 0
    /\ txns = [t \in TxHandles |-> NoTx]
    /\ warnings = 0
    /\ abandoned = {}

----------------------------------------------------------------------------
(* Specification of the splitter: split_unprepared_sql run on every input, *)
(* one loop iteration per step.                                            *)

Init ==
    /\ sql \in Inputs
    /\ state = ScanInit.state
    /\ start = ScanInit.start
    /\ i = ScanInit.i
    /\ out = ScanInit.out
    /\ pc = "scan"
    /\ ExecInit

\* one iteration of `while i < bytes.len()`
Scan ==
    /\ pc = "scan"
    /\ i < Len(sql)
    /\ LET sc == ScanStep(sql, Scanner)
       IN  /\ state' = sc.state
           /\ start' = sc.start
           /\ i' = sc.i
           /\ out' = sc.out
    /\ UNCHANGED <<sql, pc>>
    /\ UNCHANGED execVars

\* the loop is left, the tail is flushed and out is returned
Return ==
    /\ pc = "scan"
    /\ ~(i < Len(sql))
    /\ out' = FlushTail(sql, Scanner)
    /\ pc' = "done"
    /\ UNCHANGED <<sql, state, start, i>>
    /\ UNCHANGED execVars

Next == Scan \/ Return

Spec == Init /\ [][Next]_vars

----------------------------------------------------------------------------
(* What the scanner did on a text: used to state the claims *)

\* the scanner at the head of every loop iteration run on bytes from sc
RECURSIVE ScanPath(_, _)
ScanPath(bytes, sc) ==
    IF sc.i < Len(bytes) THEN <<sc>> \o ScanPath(bytes, ScanStep(bytes, sc)) ELSE <<>>

Iterations(bytes) == ScanPath(bytes, ScanInit)

\* the positions of the structural semicolons: those met in the Normal state
StructuralSemis(bytes) ==
    LET path == Iterations(bytes)
    IN  {path[k].i : k \in {n \in 1..Len(path) :
                              path[n].state = "Normal" /\ At(bytes, path[n].i) = ";"}}

\* the spans between structural semicolons, the tail included, by where they begin
SpanStarts(bytes) == {0} \cup {p + 1 : p \in StructuralSemis(bytes)}

SpanEnd(bytes, lo) ==
    LET later == {p \in StructuralSemis(bytes) : p >= lo}
    IN  IF later = {} THEN Len(bytes) ELSE CHOOSE p \in later : \A r \in later : p <= r

NonBlankSpans(bytes) ==
    {lo \in SpanStarts(bytes) : ~IsBlank(Slice(bytes, lo, SpanEnd(bytes, lo)))}

\* the text is made of comments and whitespace alone: no iteration is inside a
\* string or an identifier, one in Normal meets whitespace or opens a comment,
\* and every block comment is closed
OnlyCommentsAndWhitespace(bytes) ==
    LET path == Iterations(bytes)
    IN  /\ ScanLoop(bytes, ScanInit).state # "BlockComment"
        /\ \A k \in 1..Len(path) :
            /\ path[k].state \notin {"SingleQuote", "DoubleQuote"}
            /\ path[k].state = "Normal" =>
                  \/ At(bytes, path[k].i) \in Whitespace
                  \/ ScanStep(bytes, path[k]).state \in {"LineComment", "BlockComment"}

NoSemicolon(bytes) == \A p \in 1..Len(bytes) : bytes[p] # ";"

\* the texts of the segments
Texts(bytes, segs) == [k \in 1..Len(segs) |-> SegText(bytes, segs[k])]

\* pat occurs in text
Contains(text, pat) ==
    \E p \in 1..(Len(text) - Len(pat) + 1) : SubSeq(text, p, p + Len(pat) - 1) = pat

\* the loop is about to run an iteration
InLoop == pc = "scan" /\ i < Len(sql)

----------------------------------------------------------------------------
(* Claims about the splitter, properties of Spec *)

\* C1: a segment boundary is placed (start moves, a segment is pushed inside the
\* loop) only by an iteration that is in the Normal state and reads ';' at i; the
\* boundary is then at i: no semicolon met inside a string, an identifier or a
\* comment ends a segment.  Every returned segment ends at a semicolon that was
\* met in the Normal state, or at the end of the input.
C1_BoundaryOnlyAtNormalSemicolon ==
    /\ [][(InLoop /\ (start' # start \/ out' # out)) =>
            /\ state = "Normal"
            /\ At(sql, i) = ";"
            /\ start' = i + 1
            /\ out' # out => out' = Append(out, Seg(start, i))]_vars
    /\ [](pc = "done" =>
            \A k \in 1..Len(out) :
                \/ out[k].hi = Len(sql)
                \/ out[k].hi \in StructuralSemis(sql))

\* C1 witness: the scan is over and a semicolon lies inside a returned segment
C1_Witness ==
    /\ pc = "done"
    /\ \E k \in 1..Len(out) : \E p \in out[k].lo..(out[k].hi - 1) : At(sql, p) = ";"

\* C2 as claimed: a text of comments and whitespace alone yields no segment
C2_CommentsYieldNothing ==
    (pc = "done" /\ OnlyCommentsAndWhitespace(sql)) => out = <<>>

\* C3 as claimed: without a semicolon the result is the trimmed input, or nothing
\* when the input is blank
C3_NoSemicolonTrimmed ==
    (pc = "done" /\ NoSemicolon(sql)) =>
        Texts(sql, out) = IF IsBlank(sql) THEN <<>> ELSE <<Trim(sql)>>

\* C3 amended: without a semicolon the result is one segment that is the whole
\* input, its leading and trailing whitespace kept, or nothing when the input is
\* blank
C3_NoSemicolonWhole ==
    (pc = "done" /\ NoSemicolon(sql)) =>
        /\ out = IF IsBlank(sql) THEN <<>> ELSE <<Seg(0, Len(sql))>>
        /\ Texts(sql, out) = IF IsBlank(sql) THEN <<>> ELSE <<sql>>

\* C3 witness: a text without semicolon that trimming would change was returned
C3_Witness ==
    /\ pc = "done"
    /\ NoSemicolon(sql)
    /\ ~IsBlank(sql)
    /\ Trim(sql) # sql
    /\ Len(out) = 1

\* `SELECT 1` and `SELECT 2`
TextSelect1 == <<"S", "E", "L", "E", "C", "T", " ", "1">>
TextSelect2 == <<"S", "E", "L", "E", "C", "T", " ", "2">>

\* C4: the number of segments returned is the number of spans between structural
\* semicolons, the tail included, that are not blank; `SELECT 1;;SELECT 2;`
\* yields two segments
C4_SegmentCount ==
    pc = "done" =>
        /\ Len(out) = Cardinality(NonBlankSpans(sql))
        /\ sql = ExConsecutive => Texts(sql, out) = <<TextSelect1, TextSelect2>>

\* C4 witness: a text with two consecutive structural semicolons was split
C4_Witness ==
    /\ pc = "done"
    /\ \E p \in StructuralSemis(sql) : p + 1 \in StructuralSemis(sql)
    /\ Len(out) = 2

\* the byte that closes the quote state st
QuoteOf(st) == IF st = "SingleQuote" THEN "'" ELSE "\""

\* `SELECT 'it''s; fine'` and ` SELECT 2`
TextEscaped ==
    <<"S", "E", "L", "E", "C", "T", " ", "'", "i", "t", "'", "'", "s", ";", " ", "f", "i",
      "n", "e", "'">>
TextSpaceSelect2 == <<" ", "S", "E", "L", "E", "C", "T", " ", "2">>

\* C5: in a quote state a doubled quote of the state's kind is consumed as two
\* bytes and leaves the state, a single one returns to Normal, any other byte
\* is skipped; and `SELECT 'it''s; fine'; SELECT 2;` is split into
\* `SELECT 'it''s; fine'` and ` SELECT 2`
C5_DoubledQuote ==
    /\ [][(InLoop /\ state \in {"SingleQuote", "DoubleQuote"}) =>
            LET q == QuoteOf(state)
                doubled == At(sql, i) = q /\ i + 1 < Len(sql) /\ At(sql, i + 1) = q
            IN  /\ doubled => (state' = state /\ i' = i + 2)
                /\ (At(sql, i) = q /\ ~doubled) => (state' = "Normal" /\ i' = i + 1)
                /\ At(sql, i) # q => (state' = state /\ i' = i + 1)
                /\ start' = start /\ out' = out]_vars
    /\ []((pc = "done" /\ sql = ExEscapedQuote) =>
            Texts(sql, out) = <<TextEscaped, TextSpaceSelect2>>)

\* C5 witness: the example was split in two
C5_Witness == pc = "done" /\ sql = ExEscapedQuote /\ Len(out) = 2

\* C6: `--` met in Normal opens a line comment, which lasts to the next newline
\* and is left for Normal there; nothing is split inside it; and
\* `-- comment with ; inside\nSELECT 1;` yields one segment, which holds `SELECT 1`
C6_LineComment ==
    /\ [][(InLoop /\ state = "Normal" /\ At(sql, i) = "-"
              /\ i + 1 < Len(sql) /\ At(sql, i + 1) = "-") =>
            (state' = "LineComment" /\ i' = i + 2 /\ start' = start /\ out' = out)]_vars
    /\ [][(InLoop /\ state = "LineComment") =>
            /\ state' = IF At(sql, i) = "\n" THEN "Normal" ELSE "LineComment"
            /\ i' = i + 1
            /\ start' = start /\ out' = out]_vars
    /\ []((pc = "done" /\ sql = ExLineComment) =>
            /\ Len(out) = 1
            /\ Contains(SegText(sql, out[1]), TextSelect1))

\* C6 witness: the example was split in one segment
C6_Witness == pc = "done" /\ sql = ExLineComment /\ Len(out) = 1

----------------------------------------------------------------------------
(* The execution facade: SqlxD1Connection over the shared D1Connection.    *)
(* The backend is outside the repository: it answers every request with    *)
(* success or with an error, as it chooses.  A call is suspended from the  *)
(* moment it sends a request until it is resumed with the answer.          *)

\* SQL texts given to the facade: `a;b; c`, `a;`, `a`, ` ` and `;`
TextThree == <<"a", ";", "b", ";", " ", "c">>
TextOneSemi == <<"a", ";">>
TextOne == <<"a">>
TextBlank == <<" ">>
TextSemi == <<";">>

UnpreparedTexts == {TextThree, TextOneSemi, TextOne, TextBlank, TextSemi}

\* the sql of the prepared Statements given to the facade
PreparedTexts == {TextOneSemi}

\* Result<_, DbErr>: Ok wraps the answer to request n; Err carries the DbErr
\* kind and the request whose error text it holds (0: none, "empty SQL")
Ok(n) == [ok |-> TRUE, kind |-> "Ok", of |-> n]
Err(kind, n) == [ok |-> FALSE, kind |-> kind, of |-> n]

\* query.execute / fetch_optional / fetch_all (conn): request number n is sent
Request(id, h, text, how) ==
    [id |-> id, by |-> h, text |-> text, how |-> how, status |-> "inflight"]

\* the DbErr kind each operation maps a backend error to
ErrKind(op) ==
    CASE op = "execute"            -> "Exec"
      [] op = "execute_unprepared" -> "Exec"
      [] op = "query_one"          -> "Query"
      [] op = "query_all"          -> "Query"

\* the backend call each prepared operation makes
HowOf(op) ==
    CASE op = "execute"   -> "execute"
      [] op = "query_one" -> "fetch_optional"
      [] op = "query_all" -> "fetch_all"

\* Tapped with query_one left out of the tap
TappedWithoutQueryOne(op) == op \in {"execute", "query_all"}

\* the operations whose body is wrapped in crate::metric::metric!
Tapped(op) == op \in {"execute", "query_one", "query_all"}

\* crate::metric::metric!: with a callback set, report (statement, failed) once
\* the body has run; the body's result is passed on as it is
metric_macro(cb, reports, id, stmt, res) ==
    IF cb THEN Append(reports, [id |-> id, statement |-> stmt, failed |-> ~res.ok])
    ELSE reports

\* UnpreparedPlan whose fast path sends the segment instead of the original text
UnpreparedPlanSendsSegment(text) ==
    LET stmts == Texts(text, split_unprepared_sql(text))
    IN  IF Len(stmts) <= 1
        THEN [fast |-> TRUE, stmts |-> stmts,
              queue |-> IF Len(stmts) = 1 THEN stmts ELSE <<text>>]
        ELSE [fast |-> FALSE, stmts |-> stmts, queue |-> stmts]

\* UnpreparedPlan that runs the segments last to first
UnpreparedPlanReversed(text) ==
    LET stmts == Texts(text, split_unprepared_sql(text))
        rev == [k \in 1..Len(stmts) |-> stmts[Len(stmts) + 1 - k]]
    IN  IF Len(stmts) <= 1
        THEN [fast |-> TRUE, stmts |-> stmts, queue |-> <<text>>]
        ELSE [fast |-> FALSE, stmts |-> rev, queue |-> rev]

\* d1_execute_unprepared, up to the loop: what is sent, in which order
UnpreparedPlan(text) ==
    LET stmts == Texts(text, split_unprepared_sql(text))
    IN  IF Len(stmts) <= 1
        THEN [fast |-> TRUE, stmts |-> stmts, queue |-> <<text>>]
        ELSE [fast |-> FALSE, stmts |-> stmts, queue |-> stmts]

\* d1_execute_unprepared, the fast path resumed with the answer to c.req
FastResume(c, ok) ==
    [done |-> TRUE, result |-> IF ok THEN Ok(c.req) ELSE Err("Exec", c.req),
     k |-> c.k, last |-> c.last]

\* last.ok_or_else(|| DbErr::Exec(Internal("empty SQL"))), last = 0 being None
OkOrEmpty(last) == IF last = 0 THEN Err("Exec", 0) ELSE Ok(last)

\* LoopResume that drops a segment's error and goes on (`.ok()` for `?`)
LoopResumeIgnoresError(c, ok) ==
    LET last == IF ok THEN c.req ELSE c.last
    IN  IF c.k < Len(c.stmts)
        THEN [done |-> FALSE, result |-> Ok(0), k |-> c.k + 1, last |-> last]
        ELSE [done |-> TRUE, result |-> OkOrEmpty(last), k |-> c.k, last |-> last]

\* LoopResume that keeps the first result instead of the last
LoopResumeKeepsFirst(c, ok) ==
    LET last == IF c.last = 0 THEN c.req ELSE c.last
    IN  IF ~ok
        THEN [done |-> TRUE, result |-> Err("Exec", c.req), k |-> c.k, last |-> c.last]
        ELSE IF c.k < Len(c.stmts)
             THEN [done |-> FALSE, result |-> Ok(0), k |-> c.k + 1, last |-> last]
             ELSE [done |-> TRUE, result |-> OkOrEmpty(last), k |-> c.k, last |-> last]

\* d1_execute_unprepared, the loop resumed with the answer to c.req, the request
\* for segment c.k: `?` returns the error; otherwise last = Some(res) and the
\* loop goes on to the next segment, or ends and last is returned
LoopResume(c, ok) ==
    IF ~ok
    THEN [done |-> TRUE, result |-> Err("Exec", c.req), k |-> c.k, last |-> c.last]
    ELSE IF c.k < Len(c.stmts)
         THEN [done |-> FALSE, result |-> Ok(0), k |-> c.k + 1, last |-> c.req]
         ELSE [done |-> TRUE, result |-> OkOrEmpty(c.req), k |-> c.k, last |-> c.req]

\* the loop and the final last.ok_or_else run on any list of segments, given
\* the backend's answers oks[k] to them: how many are sent, and what is returned
\* ("Ok", "ExecBackend": a segment's error, "ExecEmpty": the `empty SQL` error)
RECURSIVE LoopRun(_, _, _)
LoopRun(stmts, k, oks) ==
    IF k > Len(stmts)
    THEN [sent |-> Len(stmts), result |-> IF Len(stmts) = 0 THEN "ExecEmpty" ELSE "Ok"]
    ELSE IF ~oks[k] THEN [sent |-> k, result |-> "ExecBackend"]
         ELSE LoopRun(stmts, k + 1, oks)

\* the call hands its result to the caller (calls: how many calls had begun)
Finish(h, c, result) ==
    /\ returned' = Append(returned,
                          [id |-> c.id, by |-> h, op |-> c.op, text |-> c.text,
                           stmts |-> c.stmts, fast |-> c.fast,
                           cb |-> metric_callback[h], result |-> result,
                           calls |-> ncalls])
    /\ call' = [call EXCEPT ![h] = Idle]

\* a call may start on h
CanBegin(h) == call[h].pc = "idle" /\ ncalls < MaxCalls

\* the caller awaits each call before it makes the next one
Sequential == \A h \in Handles : call[h].pc = "idle"

\* set_metric_callback (&mut self: no call is borrowing the handle)
SetMetricCallback(h) ==
    /\ call[h].pc = "idle"
    /\ ~metric_callback[h]
    /\ metric_callback' = [metric_callback EXCEPT ![h] = TRUE]
    /\ UNCHANGED <<call, backend, metric, returned, ncalls>>
    /\ UNCHANGED scanVars
    /\ UNCHANGED auxVars

\* execute / query_one / query_all, up to the await on the backend: sqlx_query
\* binds the values (it never fails) and the statement is sent whole
BeginPrepared(h, op, text) ==
    /\ CanBegin(h)
    /\ ncalls' = ncalls + 1
    /\ backend' = Append(backend, Request(ncalls + 1, h, text, HowOf(op)))
    /\ call' = [call EXCEPT ![h] =
                  [pc |-> "awaiting", id |-> ncalls + 1, op |-> op, text |-> text,
                   stmts |-> <<>>, fast |-> FALSE, k |-> 0, last |-> 0,
                   req |-> Len(backend) + 1]]
    /\ UNCHANGED <<metric_callback, metric, returned>>
    /\ UNCHANGED scanVars
    /\ UNCHANGED auxVars

Execute(h, text) == BeginPrepared(h, "execute", text)

QueryOne(h, text) == BeginPrepared(h, "query_one", text)

QueryAll(h, text) == BeginPrepared(h, "query_all", text)

\* execute_unprepared, up to the first await: the text is split and the first
\* request is sent
ExecuteUnprepared(h, text) ==
    /\ CanBegin(h)
    /\ ncalls' = ncalls + 1
    /\ LET plan == UnpreparedPlan(text)
       IN  /\ backend' = Append(backend,
                                Request(ncalls + 1, h, plan.queue[1], "execute"))
           /\ call' = [call EXCEPT ![h] =
                         [pc |-> "awaiting", id |-> ncalls + 1,
                          op |-> "execute_unprepared", text |-> text,
                          stmts |-> plan.stmts, fast |-> plan.fast, k |-> 1,
                          last |-> 0, req |-> Len(backend) + 1]]
    /\ UNCHANGED <<metric_callback, metric, returned>>
    /\ UNCHANGED scanVars
    /\ UNCHANGED auxVars

\* the backend answers request n: it succeeds (and its effect is applied) or fails
BackendAnswers(n) ==
    /\ backend[n].status = "inflight"
    /\ \E answer \in {"ok", "err"} :
          backend' = [backend EXCEPT ![n].status = answer]
    /\ UNCHANGED <<metric_callback, call, metric, returned, ncalls>>
    /\ UNCHANGED scanVars
    /\ UNCHANGED auxVars

\* execute / query_one / query_all resumed with the answer: the result is wrapped
\* (Ok, or the operation's DbErr kind), the metric callback is told, and the
\* result is returned
ResumePrepared(h) ==
    LET c == call[h]
        res == IF backend[c.req].status = "ok" THEN Ok(c.req) ELSE Err(ErrKind(c.op), c.req)
    IN  /\ c.pc = "awaiting"
        /\ c.op \in {"execute", "query_one", "query_all"}
        /\ backend[c.req].status # "inflight"
        /\ metric' = IF Tapped(c.op)
                     THEN metric_macro(metric_callback[h], metric, c.id, c.text, res)
                     ELSE metric
        /\ Finish(h, c, res)
        /\ UNCHANGED <<metric_callback, backend, ncalls>>
        /\ UNCHANGED scanVars
        /\ UNCHANGED auxVars

\* execute_unprepared resumed with the answer to its request in flight: the fast
\* path returns it; the loop returns the error, or sends the next segment, or
\* returns the last result
ResumeUnprepared(h) ==
    LET c == call[h]
        ok == backend[c.req].status = "ok"
        n == IF c.fast THEN FastResume(c, ok) ELSE LoopResume(c, ok)
    IN  /\ c.pc = "awaiting"
        /\ c.op = "execute_unprepared"
        /\ backend[c.req].status # "inflight"
        /\ metric' = IF Tapped(c.op)
                     THEN metric_macro(metric_callback[h], metric, c.id, c.text, n.result)
                     ELSE metric
        /\ IF n.done
           THEN /\ Finish(h, c, n.result)
                /\ UNCHANGED backend
           ELSE /\ backend' = Append(backend, Request(c.id, h, c.stmts[n.k], "execute"))
                /\ call' = [call EXCEPT ![h] =
                              [c EXCEPT !.k = n.k, !.last = n.last,
                                        !.req = Len(backend) + 1]]
                /\ UNCHANGED returned
        /\ UNCHANGED <<metric_callback, ncalls>>
        /\ UNCHANGED scanVars
        /\ UNCHANGED auxVars

\* the facade before any call; the splitter's variables are not used
InitExec ==
    /\ sql = <<>>
    /\ state = ScanInit.state
    /\ start = ScanInit.start
    /\ i = ScanInit.i
    /\ out = ScanInit.out
    /\ pc = "done"
    /\ ExecInit

NextExec ==
    \/ \E h \in Handles : SetMetricCallback(h)
    \/ \E h \in Handles, text \in PreparedTexts : Sequential /\ Execute(h, text)
    \/ \E h \in Handles, text \in PreparedTexts : Sequential /\ QueryOne(h, text)
    \/ \E h \in Handles, text \in PreparedTexts : Sequential /\ QueryAll(h, text)
    \/ \E h \in Handles, text \in UnpreparedTexts : Sequential /\ ExecuteUnprepared(h, text)
    \/ \E n \in 1..Len(backend) : BackendAnswers(n)
    \/ \E h \in Handles : ResumePrepared(h)
    \/ \E h \in Handles : ResumeUnprepared(h)

\* the facade used by a caller that awaits each call
SpecExec == InitExec /\ [][NextExec]_vars

----------------------------------------------------------------------------
(* Claims about the facade, properties of SpecExec *)

\* the requests call id sent to the backend, in the order they were sent
ReqSeq(id) == SelectSeq(backend, LAMBDA e : e.id = id)

\* the numbers of those requests
ReqsOf(id) == {n \in 1..Len(backend) : backend[n].id = id}

\* the reports the metric callback got about call id
MetricOf(id) == SelectSeq(metric, LAMBDA e : e.id = id)

Returned == {returned[n] : n \in 1..Len(returned)}

\* an execute_unprepared whose text split into several segments
Multi(r) == r.op = "execute_unprepared" /\ Len(r.stmts) > 1

\* the positions of the requests in q that failed
Failed(q) == {j \in 1..Len(q) : q[j].status = "err"}

Least(S) == CHOOSE x \in S : \A y \in S : x <= y

Greatest(S) == CHOOSE x \in S : \A y \in S : x >= y

\* the segments `a`, `b` and ` c` of TextThree
SegA == <<"a">>
SegB == <<"b">>
SegC == <<" ", "c">>

\* C7: a batch of several segments whose segment k is the first to fail returns
\* that segment's error as an execution error; segments 1..k were sent in order
\* and nothing after k is ever sent; segments before k stay applied; for the
\* 3-segment batch with a failing second segment, the first stays applied and
\* the third never reaches the backend.  While a batch runs, a request that
\* failed is never followed by another of the same call.
C7_AbortAtFirstFailure ==
    /\ \A r \in Returned :
          (Multi(r) /\ Failed(ReqSeq(r.id)) # {}) =>
              LET q == ReqSeq(r.id)
                  k == Least(Failed(q))
              IN  /\ Len(q) = k
                  /\ \A j \in 1..k : q[j].text = r.stmts[j]
                  /\ \A j \in 1..(k - 1) : q[j].status = "ok"
                  /\ r.result.ok = FALSE /\ r.result.kind = "Exec"
                  /\ r.result.of = Greatest(ReqsOf(r.id))
                  /\ (r.text = TextThree /\ k = 2) =>
                        /\ [text |-> q[1].text, status |-> q[1].status]
                              = [text |-> SegA, status |-> "ok"]
                        /\ \A n \in 1..Len(backend) :
                              backend[n].id = r.id => backend[n].text # SegC
    /\ \A h \in Handles :
          (call[h].pc = "awaiting" /\ ~call[h].fast /\ call[h].op = "execute_unprepared") =>
              LET q == ReqSeq(call[h].id)
              IN  \A j \in 1..(Len(q) - 1) : q[j].status = "ok"

\* C7 witness: the 3-segment batch failed at its second segment, and a later
\* call has finished since
C7_Witness ==
    /\ Len(returned) = 2
    /\ returned[1].text = TextThree
    /\ returned[1].op = "execute_unprepared"
    /\ Len(ReqSeq(returned[1].id)) = 2
    /\ ReqSeq(returned[1].id)[2].status = "err"

\* C8: a batch of n > 1 segments that all succeed sends them in source order,
\* once each, each after the answer to the one before, and returns the result
\* of the n-th
C8_SequentialLastResult ==
    /\ \A r \in Returned :
          (Multi(r) /\ Failed(ReqSeq(r.id)) = {}) =>
              LET q == ReqSeq(r.id)
              IN  /\ [j \in 1..Len(q) |-> q[j].text] = r.stmts
                  /\ \A j \in 1..Len(q) : q[j].status = "ok"
                  /\ r.result = Ok(Greatest(ReqsOf(r.id)))
    /\ \A h \in Handles :
          (call[h].pc = "awaiting" /\ ~call[h].fast /\ call[h].op = "execute_unprepared") =>
              LET q == ReqSeq(call[h].id)
              IN  /\ [j \in 1..Len(q) |-> q[j].text] = SubSeq(call[h].stmts, 1, call[h].k)
                  /\ \A j \in 1..(Len(q) - 1) : q[j].status = "ok"

\* C8 witness: the second call was a 3-segment batch and succeeded
C8_Witness ==
    /\ Len(returned) = 2
    /\ Multi(returned[2])
    /\ Len(returned[2].stmts) = 3
    /\ returned[2].result.ok

\* what a result is: "Ok", "ExecBackend" (a request's error) or "ExecEmpty"
Outcome(res) ==
    IF res.ok THEN "Ok" ELSE IF res.of = 0 THEN "ExecEmpty" ELSE "ExecBackend"

\* the loop run on the segments r.stmts, the backend answering each segment as
\* it answered the request q1
SegmentWise(r, q1) == LoopRun(r.stmts, 1, [j \in 1..Len(r.stmts) |-> q1.status = "ok"])

\* an execute_unprepared whose text split into at most one segment
Single(r) == r.op = "execute_unprepared" /\ Len(r.stmts) <= 1

\* the original text, unmodified, was sent in one request, and its answer returned
SentWhole(r) ==
    LET q == ReqSeq(r.id)
    IN  /\ Len(q) = 1
        /\ q[1].text = r.text
        /\ q[1].how = "execute"
        /\ r.result = IF q[1].status = "ok" THEN Ok(Greatest(ReqsOf(r.id)))
                      ELSE Err("Exec", Greatest(ReqsOf(r.id)))

\* C9 as claimed: with at most one segment the original text is sent in one
\* request, and the outcome is that of running the segments one by one
C9_FastPathEquivalent ==
    \A r \in Returned :
        Single(r) =>
            /\ SentWhole(r)
            /\ SegmentWise(r, ReqSeq(r.id)[1])
                  = [sent |-> Len(ReqSeq(r.id)), result |-> Outcome(r.result)]

\* C9 amended: with at most one segment the original text is sent in one request
\* and that request's answer is returned; this is the outcome of running the
\* segments one by one when there is one segment (the backend answering the
\* segment as it answers the whole text), and it is not when there is none: the
\* loop would send nothing and return the `empty SQL` error
C9_FastPathSendsWhole ==
    \A r \in Returned :
        Single(r) =>
            /\ SentWhole(r)
            /\ Len(r.stmts) = 1 =>
                  SegmentWise(r, ReqSeq(r.id)[1])
                      = [sent |-> Len(ReqSeq(r.id)), result |-> Outcome(r.result)]
            /\ Len(r.stmts) = 0 =>
                  /\ SegmentWise(r, ReqSeq(r.id)[1]) = [sent |-> 0, result |-> "ExecEmpty"]
                  /\ Outcome(r.result) # "ExecEmpty"

\* C9 witness: a text of one segment that differs from it (`a;`) went the fast
\* path, after a text of no segment did
C9_Witness ==
    /\ Len(returned) = 2
    /\ Single(returned[1]) /\ Len(returned[1].stmts) = 0
    /\ Single(returned[2]) /\ returned[2].stmts = <<SegA>> /\ returned[2].text = TextOneSemi

DataOps == {"execute", "execute_unprepared", "query_one", "query_all"}

\* the one report a call owes its metric callback
ReportOf(r) == [id |-> r.id, statement |-> r.text, failed |-> ~r.result.ok]

\* the result of a call is the backend's answer to its last request, wrapped
\* as the operation wraps it; nothing in it depends on the metric callback
Untouched(r) ==
    LET n == Greatest(ReqsOf(r.id))
    IN  r.result = IF backend[n].status = "ok" THEN Ok(n) ELSE Err(ErrKind(r.op), n)

----------------------------------------------------------------------------
(* ping and stream *)

\* ping: the text of the probe, "SELECT 1"
PingSql == TextSelect1

\* PingMap that drops the error as well: ping always succeeds
PingMapAlwaysOk(res) == Ok(0)

\* ping: .map(|_| ()) keeps an error and replaces the result by ()
PingMap(res) == IF res.ok THEN Ok(0) ELSE res

\* ping, up to the await: self.execute_unprepared("SELECT 1")
Ping(h) ==
    /\ CanBegin(h)
    /\ ncalls' = ncalls + 1
    /\ LET plan == UnpreparedPlan(PingSql)
       IN  /\ backend' = Append(backend,
                                Request(ncalls + 1, h, plan.queue[1], "execute"))
           /\ call' = [call EXCEPT ![h] =
                         [pc |-> "awaiting", id |-> ncalls + 1, op |-> "ping",
                          text |-> PingSql, stmts |-> plan.stmts, fast |-> plan.fast,
                          k |-> 1, last |-> 0, req |-> Len(backend) + 1]]
    /\ UNCHANGED <<metric_callback, metric, returned>>
    /\ UNCHANGED scanVars
    /\ UNCHANGED auxVars

\* ping resumed with the answer to the request of its execute_unprepared
ResumePing(h) ==
    LET c == call[h]
        ok == backend[c.req].status = "ok"
        n == IF c.fast THEN FastResume(c, ok) ELSE LoopResume(c, ok)
    IN  /\ c.pc = "awaiting"
        /\ c.op = "ping"
        /\ backend[c.req].status # "inflight"
        /\ IF n.done
           THEN /\ Finish(h, c, PingMap(n.result))
                /\ UNCHANGED backend
           ELSE /\ backend' = Append(backend, Request(c.id, h, c.stmts[n.k], "execute"))
                /\ call' = [call EXCEPT ![h] =
                              [c EXCEPT !.k = n.k, !.last = n.last,
                                        !.req = Len(backend) + 1]]
                /\ UNCHANGED returned
        /\ UNCHANGED <<metric_callback, metric, ncalls>>
        /\ UNCHANGED scanVars
        /\ UNCHANGED auxVars

\* StreamOutcome that sends the statement to the backend as query_all does
StreamOutcomeFetches(text) ==
    [send |-> TRUE, result |-> Err("BackendNotSupported", 0)]

\* stream: Err(DbErr::BackendNotSupported { db: "D1", ctx: "QueryStream" }),
\* whatever the statement; nothing is sent
StreamOutcome(text) ==
    [send |-> FALSE, result |-> Err("BackendNotSupported", 0)]

\* stream: the body has no await, the call returns at once
Stream(h, text) ==
    LET o == StreamOutcome(text)
        c == [Idle EXCEPT !.id = ncalls + 1, !.op = "stream", !.text = text]
    IN  /\ CanBegin(h)
        /\ ncalls' = ncalls + 1
        /\ backend' = IF o.send
                      THEN Append(backend, Request(ncalls + 1, h, text, "fetch_all"))
                      ELSE backend
        /\ Finish(h, c, o.result)
        /\ UNCHANGED <<metric_callback, metric>>
        /\ UNCHANGED scanVars
        /\ UNCHANGED auxVars

\* the statements given to stream
StreamTexts == PreparedTexts \cup {TextThree}

NextProbe ==
    \/ \E h \in Handles : SetMetricCallback(h)
    \/ \E h \in Handles : Ping(h)
    \/ \E h \in Handles, text \in StreamTexts : Stream(h, text)
    \/ \E h \in Handles : ExecuteUnprepared(h, TextThree)
    \/ \E n \in 1..Len(backend) : BackendAnswers(n)
    \/ \E h \in Handles : ResumePing(h)
    \/ \E h \in Handles : ResumeUnprepared(h)

\* the facade probed with ping and asked to stream, on the connection and its
\* clone, while batches run
SpecProbe == InitExec /\ [][NextProbe]_vars

----------------------------------------------------------------------------
(* Claims about ping and stream, properties of SpecProbe *)

\* C11: ping sends one request, the text `SELECT 1` through the unprepared path
\* (an execute of that text), and succeeds exactly when that request succeeds;
\* the step that starts it adds that request and touches nothing else of the
\* backend, and the step that ends it leaves the backend as it is
C11_PingIffProbeSucceeds ==
    /\ [](\A r \in Returned :
            r.op = "ping" =>
                LET q == ReqSeq(r.id)
                IN  /\ Len(q) = 1
                    /\ q[1].text = TextSelect1
                    /\ q[1].how = "execute"
                    /\ q[1].status \in {"ok", "err"}
                    /\ r.result.ok <=> q[1].status = "ok"
                    /\ r.result.ok => r.result = Ok(0))
    /\ [][\A h \in Handles :
            /\ (call[h].op # "ping" /\ call'[h].op = "ping") =>
                  backend' = Append(backend, Request(call'[h].id, h, TextSelect1, "execute"))
            /\ (call[h].op = "ping" /\ call'[h].op # "ping") => backend' = backend]_vars

\* C11 witness: a ping succeeded and a ping failed
C11_Witness ==
    /\ \E r \in Returned : r.op = "ping" /\ r.result.ok
    /\ \E r \in Returned : r.op = "ping" /\ ~r.result.ok

\* C12 as claimed: a ping whose probe the backend rejects returns a connection
\* error
C12_PingFailureIsConnErr ==
    \A r \in Returned :
        (r.op = "ping" /\ ~r.result.ok) => r.result.kind = "Conn"

\* C13: stream returns the unsupported-operation error for every statement, in
\* every state of the connection; it sends nothing to the backend and changes
\* nothing but the caller's result
C13_StreamUnsupported ==
    /\ [](\A r \in Returned :
            r.op = "stream" =>
                /\ r.result = Err("BackendNotSupported", 0)
                /\ ReqsOf(r.id) = {})
    /\ [][(Len(returned') > Len(returned) /\ returned'[Len(returned')].op = "stream") =>
            /\ backend' = backend
            /\ metric' = metric
            /\ metric_callback' = metric_callback
            /\ call' = call
            /\ UNCHANGED auxVars]_vars

\* C13 witness: stream was refused on one handle while a batch was suspended on
\* the other, and on a handle with a metric callback
C13_Witness ==
    /\ \E r \in Returned : r.op = "stream" /\ r.text = TextThree /\ r.cb
    /\ \E h \in Handles : call[h].pc = "awaiting"
    /\ \E n \in 1..Len(backend) : backend[n].status = "inflight"

----------------------------------------------------------------------------
(* begin and transaction *)

\* Option<IsolationLevel> and Option<AccessMode>, "none" being None
Levels == {"none", "Serializable"}
Modes == {"none", "ReadOnly"}

\* begin / transaction: isolation_level.is_some() || access_mode.is_some()
Warns(iso, am) == iso # "none" \/ am # "none"

\* the D1Connection a handle holds: the connection and its clones hold the same
\* one, a transaction holds the one it was given
ChannelOf(h) == IF h \in Handles THEN "d1" ELSE txns[h].conn

\* DatabaseTransaction::begin: an open handle over the connection it is given;
\* nothing is sent to the backend
DatabaseTransaction_begin(inner, cb, iso, am) ==
    [open |-> TRUE, conn |-> inner, cb |-> cb, isolation |-> iso, access |-> am]

\* new_d1 that opens a connection of its own instead of taking the one given
new_d1_own_connection(inner, cb) ==
    DatabaseTransaction_begin("fresh", cb, "none", "none")

\* DatabaseTransaction::new_d1: begin over inner, with the metric callback, and
\* None for the isolation level and the access mode
new_d1(inner, cb) == DatabaseTransaction_begin(inner, cb, "none", "none")

\* the handle new_d1 made, kept as the transaction over h
Opened(h, t, mode, todo, ret) ==
    [open |-> t.open, over |-> h, mode |-> mode, conn |-> t.conn,
     isolation |-> t.isolation, access |-> t.access, todo |-> todo, ret |-> ret]

\* begin: the warning, then new_d1(self.conn.clone(), self.metric_callback.clone())
Begin(h, iso, am) ==
    LET t == new_d1(ChannelOf(h), metric_callback[h])
    IN  /\ call[h].pc = "idle"
        /\ txns["tx"].mode = "none"
        /\ warnings' = warnings + (IF Warns(iso, am) THEN 1 ELSE 0)
        /\ txns' = [txns EXCEPT !["tx"] = Opened(h, t, "begin", <<>>, "none")]
        /\ metric_callback' = [metric_callback EXCEPT !["tx"] = t.cb]
        /\ Finish(h, [Idle EXCEPT !.op = "begin", !.text = <<iso, am>>], Ok(0))
        /\ UNCHANGED <<backend, metric, ncalls, abandoned>>
        /\ UNCHANGED scanVars

\* the callbacks given to transaction: each runs its operations on the
\* transaction in order, returns the error of the first that fails (`?`), and
\* otherwise returns ret
Callbacks ==
    {[ops |-> <<TextOne, TextThree>>, ret |-> "Ok"],
     [ops |-> <<TextThree, TextOne>>, ret |-> "Ok"],
     [ops |-> <<TextOne>>, ret |-> "Err"]}

\* transaction, up to transaction.run(callback): the warning, then new_d1
Transaction(h, iso, am, cb) ==
    LET t == new_d1(ChannelOf(h), metric_callback[h])
    IN  /\ call[h].pc = "idle"
        /\ txns["tx"].mode = "none"
        /\ warnings' = warnings + (IF Warns(iso, am) THEN 1 ELSE 0)
        /\ txns' = [txns EXCEPT !["tx"] = Opened(h, t, "callback", cb.ops, cb.ret)]
        /\ metric_callback' = [metric_callback EXCEPT !["tx"] = t.cb]
        /\ call' = [call EXCEPT ![h] =
                      [Idle EXCEPT !.pc = "in_callback", !.op = "transaction",
                                   !.text = <<iso, am>>]]
        /\ UNCHANGED <<backend, metric, returned, ncalls, abandoned>>
        /\ UNCHANGED scanVars

\* the operations on the transaction that have returned
TxReturned == SelectSeq(returned, LAMBDA r : r.by = "tx")

\* those of them that failed
TxFailures == SelectSeq(TxReturned, LAMBDA r : ~r.result.ok)

\* the operations given to the transaction
TxTexts == {TextOne, TextThree}

\* an execute_unprepared on the transaction: the callback's next operation, or
\* any operation of the holder of a transaction begun with begin
TxExecuteUnprepared(text) ==
    /\ txns["tx"].open
    /\ txns["tx"].mode = "callback" =>
          /\ TxFailures = <<>>
          /\ Len(TxReturned) < Len(txns["tx"].todo)
          /\ text = txns["tx"].todo[Len(TxReturned) + 1]
    /\ ExecuteUnprepared("tx", text)

\* an execute on a transaction begun with begin
TxExecute(text) ==
    /\ txns["tx"].open
    /\ txns["tx"].mode = "begin"
    /\ Execute("tx", text)

\* what the callback returns: the error of its failed operation, or ret
CallbackResult ==
    IF TxFailures # <<>> THEN TxFailures[1].result
    ELSE IF txns["tx"].ret = "Ok" THEN Ok(0) ELSE Err("Custom", 0)

\* DatabaseTransaction::run: the callback's result, as it is; nothing is sent to
\* the backend and nothing that was applied is reverted
DatabaseTransaction_run(log, res) == [backend |-> log, result |-> res]

\* the statements of the transaction that the backend applied, marked reverted
Reverted(log) ==
    [n \in 1..Len(log) |->
        IF log[n].by = "tx" /\ log[n].status = "ok"
        THEN [log[n] EXCEPT !.status = "reverted"] ELSE log[n]]

\* TransactionReturns that compensates a failed callback by reverting what the
\* transaction applied
TransactionReturnsCompensated(log, res) ==
    IF res.ok THEN DatabaseTransaction_run(log, res)
    ELSE DatabaseTransaction_run(Reverted(log), res)

\* transaction: its value is that of transaction.run(callback).await
TransactionReturns(log, res) == DatabaseTransaction_run(log, res)

\* transaction, once the callback has returned
TransactionReturn(h) ==
    LET c == call[h]
        o == TransactionReturns(backend, CallbackResult)
    IN  /\ c.pc = "in_callback"
        /\ call["tx"].pc = "idle"
        /\ TxFailures # <<>> \/ Len(TxReturned) = Len(txns["tx"].todo)
        /\ backend' = o.backend
        /\ Finish(h, c, o.result)
        /\ txns' = [txns EXCEPT !["tx"].open = FALSE, !["tx"].mode = "closed"]
        /\ UNCHANGED <<metric_callback, metric, ncalls, warnings, abandoned>>
        /\ UNCHANGED scanVars

\* the caller awaits each call before it makes the next one
TxSequential == \A h \in Conns : call[h].pc \in {"idle", "in_callback"}

NextTx ==
    \/ SetMetricCallback("conn")
    \/ \E h \in Handles, iso \in Levels, am \in Modes : Begin(h, iso, am)
    \/ \E h \in Handles, iso \in Levels, am \in Modes, cb \in Callbacks :
          Transaction(h, iso, am, cb)
    \/ \E text \in TxTexts : TxSequential /\ TxExecuteUnprepared(text)
    \/ \E text \in PreparedTexts : TxSequential /\ TxExecute(text)
    \/ \E text \in TxTexts : TxSequential /\ ExecuteUnprepared("conn", text)
    \/ \E text \in PreparedTexts : TxSequential /\ Execute("conn", text)
    \/ \E n \in 1..Len(backend) : BackendAnswers(n)
    \/ \E h \in Conns : ResumeUnprepared(h)
    \/ \E h \in Conns : ResumePrepared(h)
    \/ \E h \in Handles : TransactionReturn(h)

\* the connection and its clone, one of them beginning a transaction or running
\* a transactional callback, with operations on the transaction and on the
\* connection itself
SpecTx == InitExec /\ [][NextTx]_vars

----------------------------------------------------------------------------
(* Claims about begin and transaction, properties of SpecTx *)

\* what an execute or execute_unprepared issued on the connection does with
\* r.text, the backend answering as it answered r's requests: which texts are
\* sent, in which order, and what is returned
AsDirect(r) ==
    LET q == ReqSeq(r.id)
        plan == UnpreparedPlan(r.text)
        oks == [k \in 1..Len(plan.stmts) |->
                   IF k <= Len(q) THEN q[k].status = "ok" ELSE TRUE]
        run == LoopRun(plan.stmts, 1, oks)
    IN  /\ \A k \in 1..Len(q) : q[k].how = "execute"
        /\ IF r.op = "execute" \/ plan.fast
           THEN /\ Len(q) = 1
                /\ q[1].text = r.text
                /\ r.result.ok <=> q[1].status = "ok"
                /\ ~r.result.ok => r.result.kind = "Exec"
           ELSE /\ Len(q) = run.sent
                /\ \A k \in 1..Len(q) : q[k].text = plan.stmts[k]
                /\ Outcome(r.result) = run.result

\* the step opens the transaction
Opens == ~txns["tx"].open /\ txns'["tx"].open

\* the isolation level and access mode asked for in the step that opens it
Asked ==
    LET h == txns'["tx"].over
    IN  IF call'[h].op = "transaction" THEN call'[h].text
        ELSE returned'[Len(returned')].text

\* C14: begin and transaction succeed in creating the transaction whatever
\* isolation level and access mode are asked for: the request costs one warning
\* and nothing else, the transaction holds the connection of the handle it was
\* begun on, nothing is sent to begin it, and an operation on the transaction
\* sends the same requests to that connection and returns the same result as
\* the operation issued on the connection itself
C14_TransactionRequestOnlyWarns ==
    /\ [](/\ \A r \in Returned : r.op = "begin" => r.result = Ok(0)
          /\ \A r \in Returned :
                (r.op = "transaction" /\ ~r.result.ok) => r.result.kind # "Connection"
          /\ txns["tx"].mode # "none" =>
                /\ txns["tx"].conn = ChannelOf(txns["tx"].over)
                /\ txns["tx"].isolation = "none"
                /\ txns["tx"].access = "none"
          /\ \A r \in Returned :
                r.op \in {"execute", "execute_unprepared"} => AsDirect(r)
          /\ \A n \in 1..Len(backend) :
                backend[n].by \in TxHandles => ChannelOf(backend[n].by) = ChannelOf("conn"))
    /\ [][/\ Opens =>
                /\ warnings' = warnings + (IF Asked # <<"none", "none">> THEN 1 ELSE 0)
                /\ backend' = backend
                /\ metric_callback'["tx"] = metric_callback[txns'["tx"].over]
          /\ ~Opens => warnings' = warnings]_vars

\* C14 witness: a transaction begun with an isolation level and an access mode
\* was created with one warning, and the same batch returned from the
\* transaction and from the connection
C14_Witness ==
    /\ \E r \in Returned :
          r.op = "begin" /\ r.text = <<"Serializable", "ReadOnly">> /\ r.result.ok
    /\ warnings = 1
    /\ \E r1, r2 \in Returned :
          /\ r1.by = "tx" /\ r2.by = "conn"
          /\ r1.op = "execute_unprepared" /\ r2.op = "execute_unprepared"
          /\ r1.text = TextThree /\ r2.text = TextThree

\* C15: once the transactional callback has returned, transaction returns the
\* callback's result (the error of its failed operation, or its own result);
\* nothing but the callback's operations was sent, every statement of the
\* transaction that the backend applied is still applied, and no step ever
\* changes a request the backend has applied
C15_NoRollback ==
    /\ [](\A r \in Returned :
            r.op = "transaction" =>
                /\ r.result = IF TxFailures # <<>> THEN TxFailures[1].result
                              ELSE IF txns["tx"].ret = "Ok" THEN Ok(0)
                              ELSE Err("Custom", 0)
                /\ \A n \in 1..Len(backend) :
                      backend[n].by = "tx" =>
                          /\ backend[n].status \in {"ok", "err"}
                          /\ \E o \in Returned : o.by = "tx" /\ o.id = backend[n].id
                /\ \A o \in Returned :
                      (o.by = "tx" /\ o.result.ok) =>
                          \A n \in ReqsOf(o.id) : backend[n].status = "ok")
    /\ [][\A n \in 1..Len(backend) :
            backend[n].status = "ok" => backend'[n] = backend[n]]_vars

\* C15 witness: the callback's first operation succeeded, its second failed
\* after one of its statements was applied, and transaction returned that error
C15_Witness ==
    /\ \E r \in Returned :
          r.op = "transaction" /\ ~r.result.ok /\ r.result.kind = "Exec"
    /\ Len(TxReturned) = 2
    /\ TxReturned[1].result.ok
    /\ ~TxReturned[2].result.ok
    /\ \E n \in ReqsOf(TxReturned[2].id) : backend[n].status = "ok"

----------------------------------------------------------------------------
(* calls in flight at the same time *)

\* the batches given to the connection and to its clone
ConcTexts == {TextThree, TextOneSemi}

NextConc ==
    \/ \E h \in Handles, text \in ConcTexts : ExecuteUnprepared(h, text)
    \/ \E n \in 1..Len(backend) : BackendAnswers(n)
    \/ \E h \in Handles : ResumeUnprepared(h)

\* the connection and its clone, each used by a future of its own: a future
\* makes its next call when its last one has returned, whatever the other does
SpecConc == InitExec /\ [][NextConc]_vars

----------------------------------------------------------------------------
(* Claim about calls on clones, properties of SpecConc *)

\* the calls begun so far: returned, or suspended on the backend
Started ==
    {[id |-> r.id, text |-> r.text, calls |-> r.calls] : r \in Returned}
        \cup {[id |-> call[h].id, text |-> call[h].text, calls |-> ncalls + 1] :
                 h \in {g \in Handles : call[g].pc = "awaiting"}}

\* every request of call a is before every request of call b in the backend
Before(a, b) == \A n \in ReqsOf(a), m \in ReqsOf(b) : n < m

\* C16 as claimed: the requests of the calls reach the backend in call order,
\* all those of a call before any of a call begun later
C16_CallsNeverInterleave ==
    \A a, b \in Started : a.id < b.id => Before(a.id, b.id)

\* C16 amended: a call sends its own segments in source order, each after the
\* one before was answered without error, and sends nothing once it has
\* returned; a call begun after another has returned has all its requests after
\* that one's. Two calls suspended at the same time on the connection and its
\* clone are not ordered: each goes on when its own request is answered
C16_OrderedPerCall ==
    /\ [](\A a \in Started :
            LET q == ReqSeq(a.id)
                stmts == Texts(a.text, split_unprepared_sql(a.text))
            IN  /\ \A k \in 1..Len(q) - 1 : q[k].status = "ok"
                /\ Len(stmts) > 1 =>
                      /\ Len(q) <= Len(stmts)
                      /\ \A k \in 1..Len(q) : q[k].text = stmts[k]
                /\ \A b \in Started :
                      (b.id # a.id /\ b.id > a.calls) => Before(a.id, b.id))
    /\ [][/\ \A r \in Returned : ReqsOf(r.id)' = ReqsOf(r.id)
          /\ Len(backend') >= Len(backend)
          /\ \A n \in 1..Len(backend) : backend'[n].id = backend[n].id]_vars

\* C16 witness: two batches of three segments, one on the connection and one on
\* the clone, both returned Ok with their requests interleaved
C16_Witness ==
    /\ \E a, b \in Returned :
          /\ a.by = "conn" /\ b.by = "clone"
          /\ a.text = TextThree /\ b.text = TextThree
          /\ a.result.ok /\ b.result.ok
          /\ ~Before(a.id, b.id) /\ ~Before(b.id, a.id)

----------------------------------------------------------------------------
(* a call abandoned by its caller *)

\* the batches given to the connection
CancelTexts == {TextThree, TextOneSemi}

\* Dropped that stops the request in flight and reverts the segments applied
DroppedUndoes(log, c) ==
    [n \in 1..Len(log) |->
        IF log[n].id # c.id THEN log[n]
        ELSE IF log[n].status = "inflight" THEN [log[n] EXCEPT !.status = "stopped"]
        ELSE IF log[n].status = "ok" THEN [log[n] EXCEPT !.status = "reverted"]
        ELSE log[n]]

\* d1_execute_unprepared dropped at an await: no code of this file runs, the
\* requests already made stay as they are
Dropped(log, c) == log

\* the caller drops the future of a call suspended on the backend
Abandon(h) ==
    LET c == call[h]
    IN  /\ c.pc = "awaiting"
        /\ backend' = Dropped(backend, c)
        /\ abandoned' = abandoned \cup
              {[id |-> c.id, by |-> h, text |-> c.text, k |-> c.k, req |-> c.req,
                status |-> backend[c.req].status]}
        /\ call' = [call EXCEPT ![h] = Idle]
        /\ UNCHANGED <<metric_callback, metric, returned, ncalls, txns, warnings>>
        /\ UNCHANGED scanVars

NextCancel ==
    \/ \E h \in Handles, text \in CancelTexts : Sequential /\ ExecuteUnprepared(h, text)
    \/ \E n \in 1..Len(backend) : BackendAnswers(n)
    \/ \E h \in Handles : ResumeUnprepared(h)
    \/ \E h \in Handles : Abandon(h)

\* a caller that may give up a call it is awaiting, and then go on
SpecCancel == InitExec /\ [][NextCancel]_vars

----------------------------------------------------------------------------
(* Claim about abandoned calls, properties of SpecCancel *)

\* C17: of a batch abandoned while suspended on the request for segment k, the
\* request for segment k stays with the backend and is answered by it, the
\* segments 1..k-1 it applied stay applied, no further segment is sent, and no
\* step of this layer changes a request that was applied
C17_AbandonUndoesNothing ==
    /\ [](\A a \in abandoned :
            LET q == ReqSeq(a.id)
            IN  /\ Len(q) = a.k
                /\ \A j \in 1..a.k - 1 : q[j].status = "ok"
                /\ backend[a.req] = q[a.k]
                /\ q[a.k].status \in {"inflight", "ok", "err"}
                /\ a.status # "inflight" => q[a.k].status = a.status)
    /\ [][/\ \A n \in 1..Len(backend) :
                backend[n].status = "ok" => backend'[n] = backend[n]
          /\ abandoned' # abandoned => backend' = backend]_vars

\* C17 witness: a batch of three segments was abandoned while its second
\* segment was in flight, and the backend then applied that segment
C17_Witness ==
    \E a \in abandoned :
        /\ a.text = TextThree
        /\ a.k = 2
        /\ a.status = "inflight"
        /\ \A n \in ReqsOf(a.id) : backend[n].status = "ok"

----------------------------------------------------------------------------
(* Claims about the splitter's states and segments, properties of Spec *)

\* `*/` is at position p
ClosesAt(bytes, p) ==
    At(bytes, p) = "*" /\ p + 1 < Len(bytes) /\ At(bytes, p + 1) = "/"

\* ` /* c ; SELECT 2`
TextBlockTail ==
    <<" ", "/", "*", " ", "c", " ", ";", " ", "S", "E", "L", "E", "C", "T", " ", "2">>

\* C18: the block-comment state is entered from Normal at `/*` and left, for
\* Normal, only by an iteration that reads `*/`; it splits nothing. A comment
\* that is never closed lasts to the end of the input: the scan ends in the
\* block-comment state, every structural semicolon is before the last span, and
\* that whole span, from after the last structural semicolon to the end, is
\* returned as the last segment
C18_BlockComment ==
    /\ [][(InLoop /\ state # "BlockComment" /\ state' = "BlockComment") =>
            /\ state = "Normal"
            /\ At(sql, i) = "/" /\ i + 1 < Len(sql) /\ At(sql, i + 1) = "*"
            /\ i' = i + 2]_vars
    /\ [][(InLoop /\ state = "BlockComment") =>
            /\ state' = IF ClosesAt(sql, i) THEN "Normal" ELSE "BlockComment"
            /\ i' = IF ClosesAt(sql, i) THEN i + 2 ELSE i + 1
            /\ start' = start /\ out' = out]_vars
    /\ []((pc = "done" /\ state = "BlockComment") =>
            /\ Len(out) >= 1
            /\ out[Len(out)] = Seg(start, Len(sql))
            /\ start = 0 \/ start - 1 \in StructuralSemis(sql)
            /\ \A p \in StructuralSemis(sql) : p < start)
    /\ []((pc = "done" /\ sql = ExUnterminatedBlock) =>
            Texts(sql, out) = <<TextSelect1, TextBlockTail>>)

\* C18 witness: the scan of the example ended inside the comment it never closes
C18_Witness ==
    /\ pc = "done" /\ sql = ExUnterminatedBlock
    /\ state = "BlockComment"
    /\ \E p \in start..Len(sql) - 1 : At(sql, p) = ";"

\* `SELECT '--'` and `/* ' */ SELECT 1`
TextQuotedDashes == <<"S", "E", "L", "E", "C", "T", " ", "'", "-", "-", "'">>
TextCommentSelect1 ==
    <<"/", "*", " ", "'", " ", "*", "/", " ", "S", "E", "L", "E", "C", "T", " ", "1">>

\* C19: the scanner is in one of the five states; a state other than Normal is
\* entered only from Normal, and is left only for Normal: inside a string or an
\* identifier only the state's own quote ends it (`--`, `/*` and the other quote
\* change nothing), inside a comment no quote opens anything; so
\* `SELECT '--'; SELECT 2` and `/* ' */ SELECT 1; SELECT 2` give two segments
C19_OpenersOnlyInNormal ==
    /\ [](state \in States)
    /\ [][InLoop =>
            /\ state' \notin {state, "Normal"} => state = "Normal"
            /\ state \in {"SingleQuote", "DoubleQuote"} =>
                  /\ state' \in {state, "Normal"}
                  /\ state' = "Normal" => At(sql, i) = QuoteOf(state)
                  /\ At(sql, i) # QuoteOf(state) => (state' = state /\ i' = i + 1)
            /\ state \in {"LineComment", "BlockComment"} =>
                  /\ state' \in {state, "Normal"}
                  /\ At(sql, i) \in {"'", "\""} => (state' = state /\ i' = i + 1)]_vars
    /\ []((pc = "done" /\ sql = ExQuotedDashes) =>
            Texts(sql, out) = <<TextQuotedDashes, TextSpaceSelect2>>)
    /\ []((pc = "done" /\ sql = ExQuoteInComment) =>
            Texts(sql, out) = <<TextCommentSelect1, TextSpaceSelect2>>)

\* C19 witness: the scan of `SELECT '--'; SELECT 2` is over with two segments
C19_Witness == pc = "done" /\ sql = ExQuotedDashes /\ Len(out) = 2

\* the input put together again from lo on: span by span, a span that is not
\* blank taken from the segments (the k-th is the next), a blank one from the
\* input, and the structural semicolon that ends the span after it
RECURSIVE Interleave(_, _, _, _)
Interleave(bytes, segs, lo, k) ==
    LET hi == SpanEnd(bytes, lo)
        span == Slice(bytes, lo, hi)
        piece == IF IsBlank(span) THEN span
                 ELSE IF k <= Len(segs) THEN SegText(bytes, segs[k]) ELSE <<"?">>
        next == IF IsBlank(span) THEN k ELSE k + 1
    IN  IF hi < Len(bytes)
        THEN piece \o <<";">> \o Interleave(bytes, segs, hi + 1, next)
        ELSE piece \o (IF next = Len(segs) + 1 THEN <<>> ELSE <<"?">>)

\* C20: the segments returned are slices of the input, one after the other
\* without overlap, in source order; none is blank, none holds a structural
\* semicolon, each is a whole span between structural semicolons (or the ends
\* of the input); and the spans that are not blank taken from the segments, the
\* blank spans and the structural semicolons, put together in order, are the
\* input
C20_SegmentsPartitionInput ==
    pc = "done" =>
        /\ \A k \in 1..Len(out) :
              /\ 0 <= out[k].lo /\ out[k].lo < out[k].hi /\ out[k].hi <= Len(sql)
              /\ ~IsBlank(SegText(sql, out[k]))
              /\ \A p \in StructuralSemis(sql) : ~(out[k].lo <= p /\ p < out[k].hi)
              /\ out[k].lo \in SpanStarts(sql)
              /\ out[k].hi = SpanEnd(sql, out[k].lo)
        /\ \A k \in 1..Len(out) - 1 : out[k].hi < out[k + 1].lo
        /\ Interleave(sql, out, 0, 1) = sql

\* C20 witness: two segments and a dropped blank span between semicolons, one
\* semicolon of the input not being structural
C20_Witness ==
    /\ pc = "done"
    /\ Len(out) >= 2
    /\ \E lo \in SpanStarts(sql) : lo \notin NonBlankSpans(sql)
    /\ \E p \in 0..Len(sql) - 1 : At(sql, p) = ";" /\ p \notin StructuralSemis(sql)

----------------------------------------------------------------------------
(* Termination and bounds of the scan *)

\* the positions of bytes an iteration reads: bytes[i], and bytes[i + 1] where
\* the arm's test gets to it (after bytes[i] matched and i + 1 < bytes.len())
Reads(bytes, sc) ==
    LET b == At(bytes, sc.i)
        ahead == sc.i + 1 < Len(bytes)
        first == CASE sc.state = "Normal"       -> {"-", "/"}
                   [] sc.state = "SingleQuote"  -> {"'"}
                   [] sc.state = "DoubleQuote"  -> {"\""}
                   [] sc.state = "LineComment"  -> {}
                   [] sc.state = "BlockComment" -> {"*"}
    IN  {sc.i} \cup (IF b \in first /\ ahead THEN {sc.i + 1} ELSE {})

\* the loop runs while it can, and the function then returns
Live == WF_vars(Next)

\* the splitter, every iteration that can run being run
SpecLive == Spec /\ Live

\* C21: the scan ends on every input; start <= i <= length in every state; an
\* iteration reads inside the input only, moves i on by 1 or 2, by 2 only with
\* i + 1 < length, and never moves start past i; the loop is left with i at the
\* length, so every slice taken (start..i, start..) is inside the input
C21_TerminatesInBounds ==
    /\ [](0 <= start /\ start <= i /\ i <= Len(sql))
    /\ [](InLoop => \A p \in Reads(sql, Scanner) : 0 <= p /\ p < Len(sql))
    /\ [][InLoop =>
            /\ i' \in {i + 1, i + 2}
            /\ i' = i + 2 => i + 1 < Len(sql)
            /\ start' \in {start, i + 1}]_vars
    /\ [][(pc = "scan" /\ pc' = "done") => i = Len(sql)]_vars
    /\ [](pc = "done" =>
            \A k \in 1..Len(out) :
                0 <= out[k].lo /\ out[k].lo <= out[k].hi /\ out[k].hi <= Len(sql))
    /\ <>(pc = "done")

\* C21 witness: the scan is over on an input that opens a block comment and
\* ends in a lone `*`
C21_Witness ==
    /\ pc = "done"
    /\ Len(sql) >= 3
    /\ At(sql, 0) = "/" /\ At(sql, 1) = "*"
    /\ At(sql, Len(sql) - 1) = "*"
    /\ state = "BlockComment"

====
